---- MODULE Spec2Model ----
(***************************************************************************)
(* Model of photoarc: timestamp resolution, destination path building,    *)
(* placement (skip / use / rename / overwrite) and the resumable pass of  *)
(* PhotoProcessor.process_photos and VideoProcessor.process_videos.       *)
(*                                                                         *)
(* Strings are modelled by their parts.  An ISO date-time string          *)
(* "2024-12-30T18:30:45.000123" is [sep, ymd, hms, frac]; a datetime       *)
(* object is [ymd, hms, us]; an EXIF value "2024:12:30 18:30:45" is the    *)
(* sequence of its space-separated words; a filename is its stem, its     *)
(* extension and the digit groups the date patterns can find in it.       *)
(***************************************************************************)
EXTENDS Integers, Sequences, FiniteSets, TLC

VARIABLES
    files,              \* the source tree, in os.walk order
    kind,               \* "image" (PhotoProcessor) or "video" (VideoProcessor)
    overwrite,          \* config.<kind>_overwrite_existing_rule
    exifread_available, \* module flag of photo_processor.py
    dest,               \* destination tree: path -> content of the file there
    dirs,               \* destination directories made by os.makedirs
    db,                 \* the photos table, in insertion order
    processed_files,    \* self.processed_files
    file_count, copy_count, skip_count, error_count,
    pc,                 \* "idle" | "walk" | "done" | "aborted" | "crashed";
                        \* "time" | "resolved" and "build" | "built" for one call
    idx,                \* position of the walk in files
    passes,             \* passes started so far
    faults,             \* failures injected so far
    orphans,            \* <<file index, path>> copied by an interrupted step
    last,               \* what the last step did
    exclude_dirs,       \* self.exclude_dirs: the --exclude arguments
    formats             \* the two templates handed to build_destination_path

vars == <<files, kind, overwrite, exifread_available, dest, dirs, db,
          processed_files, file_count, copy_count, skip_count, error_count,
          pc, idx, passes, faults, orphans, last, exclude_dirs, formats>>

(***************************************************************************)
(* Bounds of the model.                                                    *)
(***************************************************************************)
NumFiles == 3
MaxPasses == 2
MaxFaults == 1

Contents == {"c1", "c2"}

(***************************************************************************)
(* Calendar and the two string <-> datetime conversions.                   *)
(***************************************************************************)
NoneT == [sep |-> "None", ymd |-> <<>>, hms |-> <<>>, frac |-> <<>>]
NoMtime == [ymd |-> <<>>, hms |-> <<>>, us |-> 0]
InvalidDt == [ymd |-> <<>>, hms |-> <<>>, us |-> -1]

IsoStr(ymd, hms) == [sep |-> "-", ymd |-> ymd, hms |-> hms, frac |-> <<>>]

IsLeap(y) == (y % 4 = 0 /\ y % 100 # 0) \/ y % 400 = 0

DaysInMonth(y, m) ==
    IF m = 2 THEN (IF IsLeap(y) THEN 29 ELSE 28)
    ELSE IF m \in {4, 6, 9, 11} THEN 30 ELSE 31

\* datetime.fromisoformat: InvalidDt stands for the ValueError it raises
fromisoformat(s) ==
    IF /\ s.sep = "-"
       /\ Len(s.ymd) = 3 /\ Len(s.hms) = 3
       /\ s.ymd[1] \in 1..9999
       /\ s.ymd[2] \in 1..12
       /\ s.ymd[3] \in 1..DaysInMonth(s.ymd[1], s.ymd[2])
       /\ s.hms[1] \in 0..23 /\ s.hms[2] \in 0..59 /\ s.hms[3] \in 0..59
    THEN [ymd |-> s.ymd, hms |-> s.hms,
          us |-> IF s.frac = <<>> THEN 0 ELSE s.frac[1]]
    ELSE InvalidDt

\* datetime.isoformat: the fraction is written only when it is not zero
isoformat(dt) ==
    [sep |-> "-", ymd |-> dt.ymd, hms |-> dt.hms,
     frac |-> IF dt.us = 0 THEN <<>> ELSE <<dt.us>>]

DtKey(dt) == dt.ymd \o dt.hms \o <<dt.us>>

RECURSIVE LexLeq(_, _, _)
LexLeq(a, b, i) ==
    IF i > Len(a) THEN TRUE
    ELSE IF a[i] < b[i] THEN TRUE
    ELSE IF a[i] > b[i] THEN FALSE
    ELSE LexLeq(a, b, i + 1)

DtLeq(x, y) == LexLeq(DtKey(x), DtKey(y), 1)

\* min() of a non-empty list of datetime objects
RECURSIVE MinDt(_)
MinDt(ds) ==
    IF Len(ds) = 1 THEN ds[1]
    ELSE LET m == MinDt(Tail(ds))
         IN  IF DtLeq(ds[1], m) THEN ds[1] ELSE m

(***************************************************************************)
(* utils.get_date_from_filename                                            *)
(***************************************************************************)
patterns == <<"datetime", "date">>

DateGroupsMatch(st) ==
    /\ Len(st) >= 3
    /\ st[1] \in 1900..2099
    /\ st[2] \in 1..12
    /\ st[3] \in 1..31

\* re.search(pattern, filename) on the digit groups of the filename
PatternMatches(p, st) ==
    IF p = "datetime"
    THEN /\ DateGroupsMatch(st)
         /\ Len(st) >= 6
         /\ st[4] \in 0..23 /\ st[5] \in 0..59 /\ st[6] \in 0..59
    ELSE DateGroupsMatch(st)

MatchedTime(p, st) ==
    IF p = "datetime"
    THEN IsoStr(<<st[1], st[2], st[3]>>, <<st[4], st[5], st[6]>>)
    ELSE IsoStr(<<st[1], st[2], st[3]>>, <<0, 0, 0>>)

RECURSIVE FirstMatch(_, _, _)
FirstMatch(ps, st, i) ==
    IF i > Len(ps) THEN NoneT
    ELSE IF PatternMatches(ps[i], st) THEN MatchedTime(ps[i], st)
    ELSE FirstMatch(ps, st, i + 1)

get_date_from_filename_swapped(fn) == FirstMatch(<<"date", "datetime">>, fn.stamp, 1)

get_date_from_filename(fn) == FirstMatch(patterns, fn.stamp, 1)

\* imported by photo_processor.py; its definition is not part of the sources
get_datetime_from_filename(fn) == FirstMatch(<<"datetime", "date">>, fn.stamp, 1)

(***************************************************************************)
(* utils.get_file_modification_time                                        *)
(***************************************************************************)
get_file_modification_time_now(f) ==
    IF f.mtime = NoMtime THEN IsoStr(<<2026, 1, 1>>, <<12, 0, 0>>)
    ELSE isoformat(f.mtime)

get_file_modification_time(f) ==
    IF f.mtime = NoMtime THEN NoneT ELSE isoformat(f.mtime)

(***************************************************************************)
(* PhotoProcessor: EXIF extraction and reconciliation                      *)
(***************************************************************************)
exif_datetime_fields ==
    <<"EXIF DateTimeOriginal", "EXIF DateTimeDigitized", "Image DateTime">>

\* date_part, time_part = s.split(" "); date_part.replace(":", "-")
_convert_to_iso_format(v) ==
    IF Len(v) # 2 THEN NoneT
    ELSE [sep |-> IF v[1].sep = ":" THEN "-" ELSE v[1].sep,
          ymd |-> v[1].n, hms |-> v[2].n, frac |-> <<>>]

RECURSIVE ExtractFrom(_, _, _)
ExtractFrom(fields, exif_data, i) ==
    IF i > Len(fields) THEN NoneT
    ELSE IF /\ fields[i] \in DOMAIN exif_data
            /\ exif_data[fields[i]] # <<>>
            /\ _convert_to_iso_format(exif_data[fields[i]]) # NoneT
         THEN _convert_to_iso_format(exif_data[fields[i]])
         ELSE ExtractFrom(fields, exif_data, i + 1)

_extract_exif_datetime_reversed(exif_data) ==
    ExtractFrom(<<"Image DateTime", "EXIF DateTimeDigitized", "EXIF DateTimeOriginal">>,
                exif_data, 1)

_extract_exif_datetime(exif_data) == ExtractFrom(exif_datetime_fields, exif_data, 1)

IsMidnight(t) == t # NoneT /\ t.hms = <<0, 0, 0>> /\ t.frac = <<>>

NotNone(ts) == SelectSeq(ts, LAMBDA t : t # NoneT)

Parsed(ts) ==
    LET ds == [i \in 1..Len(ts) |-> fromisoformat(ts[i])]
    IN  SelectSeq(ds, LAMBDA d : d # InvalidDt)

_get_earliest_time_nomidnight(exif_time, filename_time, mod_time) ==
    LET times == NotNone(<<exif_time, filename_time, mod_time>>)
        datetime_objects == Parsed(times)
    IN  IF times = <<>> \/ datetime_objects = <<>> THEN NoneT
        ELSE isoformat(MinDt(datetime_objects))

_get_earliest_time(exif_time, filename_time, mod_time) ==
    LET all == NotNone(<<exif_time, filename_time, mod_time>>)
        non_filename_times == NotNone(<<exif_time, mod_time>>)
        times == IF IsMidnight(filename_time) /\ non_filename_times # <<>>
                 THEN non_filename_times ELSE all
        datetime_objects == Parsed(times)
    IN  IF all = <<>> THEN NoneT
        ELSE IF datetime_objects = <<>> THEN NoneT
        ELSE isoformat(MinDt(datetime_objects))

\* exifread's tags as a dictionary; None and {} are both falsy
_get_exif_data(f, available) ==
    IF available THEN f.exif ELSE << >>

_get_photo_modification_time(f, available) ==
    IF ~available
    THEN _get_earliest_time(NoneT, get_datetime_from_filename(f.fn),
                            get_file_modification_time(f))
    ELSE LET exif_data == _get_exif_data(f, available)
             exif_time == IF DOMAIN exif_data # {}
                          THEN _extract_exif_datetime(exif_data) ELSE NoneT
         IN  IF exif_time # NoneT THEN exif_time
             ELSE _get_earliest_time(NoneT, get_datetime_from_filename(f.fn),
                                     get_file_modification_time(f))

(***************************************************************************)
(* VideoProcessor._get_video_creation_time                                 *)
(***************************************************************************)
_get_video_creation_time(f) ==
    LET created_time == get_date_from_filename(f.fn)
    IN  IF created_time # NoneT THEN created_time
        ELSE get_file_modification_time(f)

Resolve(k, f, available) ==
    IF k = "image" THEN _get_photo_modification_time(f, available)
    ELSE _get_video_creation_time(f)

(***************************************************************************)
(* utils.build_destination_path and the configured templates               *)
(***************************************************************************)
image_destination_path_format == <<"year", "month", "day">>
image_destination_filename_format ==
    <<"IMG", "year", "month", "day", "originalfile", "extension">>
video_destination_path_format == <<"year", "month", "day">>
video_destination_filename_format ==
    <<"VID", "year", "month", "day", "originalfile", "extension">>

PathKeywords == {"year", "month", "day"}
FilenameKeywords ==
    {"originalfile", "year", "month", "day", "hour", "minute", "second", "extension"}

Field(dt, fn, tok) ==
    CASE tok = "year" -> dt.ymd[1]
      [] tok = "month" -> dt.ymd[2]
      [] tok = "day" -> dt.ymd[3]
      [] tok = "hour" -> dt.hms[1]
      [] tok = "minute" -> dt.hms[2]
      [] tok = "second" -> dt.hms[3]
      [] tok = "originalfile" -> fn.stem
      [] tok = "extension" -> fn.ext
      [] OTHER -> tok

NoFile == [base |-> <<>>, ext |-> ""]

Front(s) == SubSeq(s, 1, Len(s) - 1)

\* str.format raises KeyError for a replacement field it is given no value for
build_destination_path(created_time, fn, path_format, filename_format) ==
    LET dt == fromisoformat(created_time)
    IN  IF dt = InvalidDt
        THEN [exc |-> "ValueError", dir |-> <<>>, file |-> NoFile]
        ELSE IF \E i \in 1..Len(path_format) :
                    path_format[i] \in FilenameKeywords \ PathKeywords
        THEN [exc |-> "KeyError", dir |-> <<>>, file |-> NoFile]
        ELSE [exc |-> "none",
              dir |-> [i \in 1..Len(path_format) |-> Field(dt, fn, path_format[i])],
              file |-> [base |-> [i \in 1..(Len(filename_format) - 1) |->
                                    Field(dt, fn, filename_format[i])],
                        ext |-> Field(dt, fn, filename_format[Len(filename_format)])]]

(***************************************************************************)
(* Destination paths, content comparison, unique names                     *)
(***************************************************************************)
\* os.path.join(base_dir, dest_path, f"{base_name}{suffix}{ext}")
Path(dir, file, sfx) == [dir |-> dir, base |-> file.base, ext |-> file.ext, sfx |-> sfx]

NoPath == [dir |-> <<>>, base |-> <<>>, ext |-> "", sfx |-> <<>>]

\* the counter of the rename loops stops at 999 in utils.py
CounterLimit == 999

NoneMd5 == <<>>

\* hashlib.md5 of the bytes; None when the file cannot be read
get_file_md5(content, readable) == IF readable THEN <<content>> ELSE NoneMd5

is_same_file_never(d, f, p, flt) == FALSE

is_same_file(d, f, p, flt) ==
    LET source_md5 == get_file_md5(f.content, TRUE)
        dest_md5 == get_file_md5(d[p], flt # "md5")
    IN  source_md5 # NoneMd5 /\ dest_md5 # NoneMd5 /\ source_md5 = dest_md5

is_file_already_processed_by_path(d, p) == p \in DOMAIN d

\* the first value a loop counter stops at: the least member of S
FirstCounter(S) == CHOOSE c \in S : \A j \in S : c <= j

\* The "while True" loop of generate_unique_filename_with_content_check, from
\* the given counter: it returns at the first counter whose name is free or
\* holds the content of the source, unless the counter passed the limit
\* before that and the uuid name is free.  A directory of n files leaves a
\* free name among any n + 1 counters.
UniqueLoop(d, dir, file, f, flt, u, counter) ==
    LET uuid_path == Path(dir, file, <<0, u>>)
        stop == FirstCounter({c \in counter..(counter + Cardinality(DOMAIN d)) :
                    \/ Path(dir, file, <<c>>) \notin DOMAIN d
                    \/ is_same_file(d, f, Path(dir, file, <<c>>), flt)})
        limit == IF counter + 1 > CounterLimit THEN counter ELSE CounterLimit
    IN  IF uuid_path \notin DOMAIN d /\ limit < stop THEN uuid_path
        ELSE Path(dir, file, <<stop>>)

generate_unique_filename_with_content_check_original(d, dir, file, f, flt, u) ==
    Path(dir, file, << >>)

generate_unique_filename_with_content_check_from2(d, dir, file, f, flt, u) ==
    LET original_full_path == Path(dir, file, <<>>)
    IN  IF original_full_path \notin DOMAIN d THEN original_full_path
        ELSE IF is_same_file(d, f, original_full_path, flt) THEN original_full_path
        ELSE UniqueLoop(d, dir, file, f, flt, u, 2)

generate_unique_filename_with_content_check(d, dir, file, f, flt, u) ==
    LET original_full_path == Path(dir, file, <<>>)
    IN  IF original_full_path \notin DOMAIN d THEN original_full_path
        ELSE IF is_same_file(d, f, original_full_path, flt) THEN original_full_path
        ELSE UniqueLoop(d, dir, file, f, flt, u, 1)

\* the inline loop of _process_single_video: while os.path.exists(full_dest_path);
\* it leaves with the first counter, from the given one, whose name is free
VideoLoop(d, dir, file, full_dest_path, counter) ==
    IF full_dest_path \notin DOMAIN d THEN full_dest_path
    ELSE Path(dir, file,
              <<FirstCounter({c \in counter..(counter + Cardinality(DOMAIN d)) :
                                 Path(dir, file, <<c>>) \notin DOMAIN d})>>)

(***************************************************************************)
(* Database                                                                *)
(***************************************************************************)
\* INSERT OR REPLACE keyed by a fresh uuid4: always a new row
insert_photo(database, source_path, dest_path, media_type) ==
    Append(database, [src |-> source_path, dst |-> dest_path, media |-> media_type])

\* SELECT source_file_path ... WHERE source_file_path LIKE 'source_dir%';
\* every source path of the walk lies under source_dir
get_processed_files(database) == {database[k].src : k \in DOMAIN database}

SrcPath(f) == <<f.dir, f.fn.stem, f.fn.ext>>

(***************************************************************************)
(* _copy_and_record_file and _process_single_photo / _process_single_video *)
(* Each returns what the call leaves behind: its result string (or the     *)
(* exception it lets escape), the destination tree and the table.          *)
(* flt is the failure injected into this call, "none" for none.            *)
(***************************************************************************)
Out(result, exc, d, ds, database, ts, target, used) ==
    [result |-> result, exc |-> exc, dest |-> d, dirs |-> ds, db |-> database,
     ts |-> ts, target |-> target, used |-> used]

copy2_nothing(d, f, target) == d

\* shutil.copy2(source_path, dest_path)
copy2(d, f, target) ==
    [p \in DOMAIN d \cup {target} |-> IF p = target THEN f.content ELSE d[p]]

_copy_and_record_file_insert_first(d, ds, database, f, target, ts, media_type, flt) ==
    IF flt = "copy"
    THEN Out("error", "none", d, ds,
             insert_photo(database, SrcPath(f), target, media_type), ts, target, TRUE)
    ELSE Out("copied", "none", copy2(d, f, target), ds,
             insert_photo(database, SrcPath(f), target, media_type), ts, target, FALSE)

_copy_and_record_file(d, ds, database, f, target, ts, media_type, flt) ==
    IF flt = "copy"
    THEN Out("error", "none", d, ds, database, ts, target, TRUE)
    ELSE IF flt = "crash"
    THEN Out("crashed", "none", copy2(d, f, target), ds, database, ts, target, TRUE)
    ELSE IF f.mtime = NoMtime
    THEN \* os.path.getmtime(source_path) raises OSError after the copy
         Out("error", "none", copy2(d, f, target), ds, database, ts, target, FALSE)
    ELSE IF flt = "insert"
    THEN Out("error", "none", copy2(d, f, target), ds, database, ts, target, TRUE)
    ELSE Out("copied", "none", copy2(d, f, target), ds,
             insert_photo(database, SrcPath(f), target, media_type), ts, target, FALSE)

\* The placement decision of _process_single_photo (lines 191-222):
\* [skip, target], skip for "skipped", else the path the copy goes to.
Recheck(d, f, flt, full_dest_path) ==
    [skip |-> /\ is_file_already_processed_by_path(d, full_dest_path)
              /\ is_same_file(d, f, full_dest_path, flt),
     target |-> full_dest_path]

PlacePhoto_ignore_rule(d, f, dir, file, full_dest_path, ow, flt, u) ==
    IF ~is_file_already_processed_by_path(d, full_dest_path)
    THEN [skip |-> FALSE, target |-> full_dest_path]
    ELSE IF is_same_file(d, f, full_dest_path, flt)
    THEN [skip |-> TRUE, target |-> full_dest_path]
    ELSE Recheck(d, f, flt,
             generate_unique_filename_with_content_check(d, dir, file, f, flt, u))

PlacePhoto(d, f, dir, file, full_dest_path, ow, flt, u) ==
    IF ~is_file_already_processed_by_path(d, full_dest_path)
    THEN [skip |-> FALSE, target |-> full_dest_path]
    ELSE IF is_same_file(d, f, full_dest_path, flt)
    THEN [skip |-> TRUE, target |-> full_dest_path]
    ELSE IF ~ow
    THEN Recheck(d, f, flt,
             generate_unique_filename_with_content_check(d, dir, file, f, flt, u))
    ELSE [skip |-> FALSE, target |-> full_dest_path]

\* The placement decision of _process_single_video (lines 165-181)
PlaceVideo(d, f, dir, file, full_dest_path, ow, flt) ==
    IF full_dest_path \notin DOMAIN d
    THEN [skip |-> FALSE, target |-> full_dest_path]
    ELSE IF is_same_file(d, f, full_dest_path, flt)
    THEN [skip |-> TRUE, target |-> full_dest_path]
    ELSE IF ~ow
    THEN [skip |-> FALSE, target |-> VideoLoop(d, dir, file, full_dest_path, 1)]
    ELSE [skip |-> FALSE, target |-> full_dest_path]

Place(k, d, f, dir, file, full_dest_path, ow, flt, u) ==
    IF k = "image" THEN PlacePhoto(d, f, dir, file, full_dest_path, ow, flt, u)
    ELSE PlaceVideo(d, f, dir, file, full_dest_path, ow, flt)

\* a failed digest read was part of this call
Md5Failed(d, full_dest_path, flt, r) ==
    [r EXCEPT !.used = r.used \/ (flt = "md5" /\ full_dest_path \in DOMAIN d)]

\* after the decision: return "skipped", or os.makedirs and copy and record
SinglePlaced(k, d, ds, database, f, flt, ts, dir, full_dest_path, placement) ==
    Md5Failed(d, full_dest_path, flt,
        IF placement.skip
        THEN Out("skipped", "none", d, ds, database, ts, placement.target, FALSE)
        ELSE _copy_and_record_file(d, ds \cup {dir}, database, f, placement.target,
                                   ts, k, flt))

\* after build_destination_path, whose exceptions are not caught here
SingleBuilt(k, d, ds, database, f, ow, flt, u, ts, bp) ==
    IF bp.exc # "none"
    THEN Out("raise", bp.exc, d, ds, database, ts, NoPath, FALSE)
    ELSE SinglePlaced(k, d, ds, database, f, flt, ts, bp.dir,
             Path(bp.dir, bp.file, <<>>),
             Place(k, d, f, bp.dir, bp.file, Path(bp.dir, bp.file, <<>>), ow, flt, u))

path_format(k) ==
    IF k = "image" THEN image_destination_path_format
    ELSE video_destination_path_format

filename_format(k) ==
    IF k = "image" THEN image_destination_filename_format
    ELSE video_destination_filename_format

\* after the timestamp is resolved: "if not modification_time: return 'error'"
SingleResolved(k, d, ds, database, f, ow, flt, u, ts) ==
    IF ts = NoneT
    THEN Out("error", "none", d, ds, database, ts, NoPath, FALSE)
    ELSE SingleBuilt(k, d, ds, database, f, ow, flt, u, ts,
             build_destination_path(ts, f.fn, path_format(k), filename_format(k)))

_process_single_photo(d, ds, database, f, ow, available, flt, u) ==
    SingleResolved("image", d, ds, database, f, ow, flt, u,
                   _get_photo_modification_time(f, available))

_process_single_video(d, ds, database, f, ow, flt, u) ==
    SingleResolved("video", d, ds, database, f, ow, flt, u,
                   _get_video_creation_time(f))

ProcessSingle(f, flt, u) ==
    IF kind = "image"
    THEN _process_single_photo(dest, dirs, db, f, overwrite, exifread_available, flt, u)
    ELSE _process_single_video(dest, dirs, db, f, overwrite, flt, u)

(***************************************************************************)
(* Source trees                                                            *)
(***************************************************************************)
Kinds == {"image", "video"}

ExtOf(k) == IF k = "image" THEN "jpg" ELSE "mp4"

MtEarly == [ymd |-> <<2024, 12, 29>>, hms |-> <<23, 0, 0>>, us |-> 0]
MtLate == [ymd |-> <<2025, 1, 2>>, hms |-> <<3, 4, 5>>, us |-> 0]
MtLateMicro == [ymd |-> <<2025, 1, 2>>, hms |-> <<3, 4, 5>>, us |-> 123]

StFull == <<2024, 12, 30, 18, 30, 45>>      \* 20241230_183045_x
StFullMidnight == <<2024, 12, 30, 0, 0, 0>> \* 20241230_000000_x
StDate == <<2024, 12, 30>>                  \* 20241230
StFeb30 == <<2024, 2, 30, 12, 0, 0>>        \* 20240230_120000
StFeb30Date == <<2024, 2, 30>>              \* 20240230
StNone == <<>>                              \* IMG_x

NoExif == << >>

\* profiles of the files of a pass: metadata that resolves, a filename date
\* that is no calendar date, and nothing to resolve from
ProfFull == [stem |-> "a", stamp |-> StFull, exif |-> NoExif, mtime |-> MtLate]
ProfFeb30 == [stem |-> "b", stamp |-> StFeb30, exif |-> NoExif, mtime |-> MtLate]
ProfNothing == [stem |-> "c", stamp |-> StNone, exif |-> NoExif, mtime |-> NoMtime]
ProfFullNoStat == [stem |-> "a", stamp |-> StFull, exif |-> NoExif, mtime |-> NoMtime]

BaseProfiles == {ProfFull, ProfFeb30, ProfNothing}
FaultProfiles == BaseProfiles \cup {ProfFullNoStat}

File(i, prof, c, k) ==
    [dir |-> <<i>>,
     fn |-> [stem |-> prof.stem, ext |-> ExtOf(k), stamp |-> prof.stamp],
     exif |-> prof.exif, mtime |-> prof.mtime, content |-> c]

NoLast == [op |-> "none", src |-> 0, result |-> "none", exc |-> "none",
           ts |-> NoneT, target |-> NoPath]

InitWith(profiles) ==
    /\ kind \in Kinds
    /\ overwrite \in BOOLEAN
    /\ exifread_available = TRUE
    /\ \E pick \in [1..NumFiles -> profiles \X Contents] :
          files = [i \in 1..NumFiles |-> File(i, pick[i][1], pick[i][2], kind)]
    /\ dest = << >>
    /\ dirs = {}
    /\ db = << >>
    /\ processed_files = {}
    /\ file_count = 0 /\ copy_count = 0 /\ skip_count = 0 /\ error_count = 0
    /\ pc = "idle"
    /\ idx = 0
    /\ passes = 0
    /\ faults = 0
    /\ orphans = {}
    /\ last = NoLast
    /\ exclude_dirs = {}
    /\ formats = [path |-> path_format(kind), filename |-> filename_format(kind)]

Init == InitWith(BaseProfiles)

InitF == InitWith(FaultProfiles)

(***************************************************************************)
(* process_photos / process_videos                                         *)
(***************************************************************************)
_load_processed_files(database, load_fails) ==
    IF load_fails THEN {} ELSE get_processed_files(database)

\* the counters are reset and the processed set is loaded
Start(load_fails) ==
    /\ pc \in {"idle", "done", "aborted", "crashed"}
    /\ passes < MaxPasses
    /\ passes' = passes + 1
    /\ file_count' = 0 /\ copy_count' = 0 /\ skip_count' = 0 /\ error_count' = 0
    /\ processed_files' = _load_processed_files(db, load_fails)
    /\ pc' = "walk"
    /\ idx' = 1
    /\ faults' = IF load_fails THEN faults + 1 ELSE faults
    /\ last' = [NoLast EXCEPT !.op = "start"]
    /\ UNCHANGED <<files, kind, overwrite, exifread_available, exclude_dirs, formats, dest, dirs, db, orphans>>

\* except Exception in process_photos;
\* except (OSError, IOError, sqlite3.Error) in process_videos
LoopCatches(k, exc) ==
    IF k = "image" THEN TRUE ELSE exc \in {"OSError", "IOError", "sqlite3.Error"}

(***************************************************************************)
(* _is_excluded_directory and the pruning of os.walk.  A directory is its  *)
(* path relative to the source root, a sequence of names; names are        *)
(* numbers, Dot is "." and DotDot is "..".                                 *)
(***************************************************************************)
Dot == 0
DotDot == 0 - 1

\* os.path.normpath of a relative path: "." components are dropped, "x/.."
\* collapses, and the empty result is "."
RECURSIVE Collapse(_, _, _)
Collapse(p, i, acc) ==
    IF i > Len(p) THEN acc
    ELSE IF p[i] = Dot THEN Collapse(p, i + 1, acc)
    ELSE IF p[i] = DotDot /\ acc # <<>> /\ acc[Len(acc)] # DotDot
    THEN Collapse(p, i + 1, Front(acc))
    ELSE Collapse(p, i + 1, Append(acc, p[i]))

normpath(p) ==
    IF Collapse(p, 1, <<>>) = <<>> THEN <<Dot>> ELSE Collapse(p, 1, <<>>)

\* s.startswith(t + os.sep)
StartsWithDir(s, t) == Len(s) > Len(t) /\ SubSeq(s, 1, Len(t)) = t

_is_excluded_directory_never(dir_path, excl) == FALSE

\* dir_path is os.path.relpath(root, self.source_dir); <<>> is the root, "."
_is_excluded_directory(dir_path, excl) ==
    IF dir_path = <<>> THEN FALSE
    ELSE \E exclude_dir \in excl :
            \/ normpath(dir_path) = normpath(exclude_dir)
            \/ StartsWithDir(normpath(dir_path), normpath(exclude_dir))
            \/ StartsWithDir(normpath(exclude_dir), normpath(dir_path))

\* os.walk reaches a directory when no directory on the way to it, itself
\* included, was excluded: an excluded root has its dirs cleared
Walked(dir_path, excl) ==
    \A k \in 0..Len(dir_path) : ~_is_excluded_directory(SubSeq(dir_path, 1, k), excl)

Processed_any_result(processed, result, file_path) == processed \cup {file_path}

\* elif result == "copied": self.processed_files.add(file_path)
Processed(processed, result, file_path) ==
    IF result = "copied" THEN processed \cup {file_path} ELSE processed

\* the try block of the loop body
WalkFresh(i, file_path, r, flt) ==
    /\ flt = "none" \/ r.used
    /\ dest' = r.dest
    /\ dirs' = r.dirs
    /\ db' = r.db
    /\ last' = [op |-> "file", src |-> i, result |-> r.result,
                exc |-> r.exc, ts |-> r.ts, target |-> r.target]
    /\ IF r.result = "crashed"
       THEN /\ pc' = "crashed"
            /\ orphans' = orphans \cup {<<i, r.target>>}
            /\ UNCHANGED <<processed_files, file_count, copy_count,
                           skip_count, error_count, idx>>
       ELSE IF r.result = "raise"
       THEN IF LoopCatches(kind, r.exc)
            THEN /\ error_count' = error_count + 1
                 /\ idx' = idx + 1
                 /\ UNCHANGED <<processed_files, file_count, copy_count,
                                skip_count, pc, orphans>>
            ELSE /\ pc' = "aborted"
                 /\ UNCHANGED <<processed_files, file_count, copy_count,
                                skip_count, error_count, idx, orphans>>
       ELSE /\ file_count' = file_count + 1
            /\ skip_count' = IF r.result = "skipped"
                             THEN skip_count + 1 ELSE skip_count
            /\ copy_count' = IF r.result = "copied"
                             THEN copy_count + 1 ELSE copy_count
            /\ error_count' = IF r.result \notin {"skipped", "copied"}
                              THEN error_count + 1 ELSE error_count
            /\ processed_files' = Processed(processed_files, r.result, file_path)
            /\ idx' = idx + 1
            /\ UNCHANGED <<pc, orphans>>

WalkKnown_reprocess(i, file_path, r, flt) == WalkFresh(i, file_path, r, flt)

\* "if file_path in self.processed_files": counted as skipped, continue
WalkKnown(i, file_path, r, flt) ==
    /\ flt = "none"
    /\ skip_count' = skip_count + 1
    /\ file_count' = file_count + 1
    /\ idx' = idx + 1
    /\ last' = [NoLast EXCEPT !.op = "known", !.src = i, !.result = "skipped"]
    /\ UNCHANGED <<dest, dirs, db, processed_files, copy_count,
                   error_count, pc, orphans>>

\* one iteration of "for file in files" on a supported file; r is what
\* _process_single_photo / _process_single_video returns or raises
WalkBody(i, file_path, r, flt) ==
    IF file_path \in processed_files
    THEN WalkKnown(i, file_path, r, flt)
    ELSE WalkFresh(i, file_path, r, flt)

Walk(flt, u) ==
    /\ pc = "walk"
    /\ idx \in 1..Len(files)
    /\ Walked(files[idx].dir, exclude_dirs)
    /\ WalkBody(idx, SrcPath(files[idx]), ProcessSingle(files[idx], flt, u), flt)
    /\ faults' = IF flt = "none" THEN faults ELSE faults + 1
    /\ UNCHANGED <<files, kind, overwrite, exifread_available, exclude_dirs, formats,
                   passes>>

\* the files of a directory os.walk skips or never reaches are not touched
WalkExcluded ==
    /\ pc = "walk"
    /\ idx \in 1..Len(files)
    /\ ~Walked(files[idx].dir, exclude_dirs)
    /\ idx' = idx + 1
    /\ last' = [NoLast EXCEPT !.op = "excluded", !.src = idx]
    /\ UNCHANGED <<files, kind, overwrite, exifread_available, exclude_dirs, formats,
                   dest, dirs, db, processed_files, file_count, copy_count,
                   skip_count, error_count, pc, passes, faults, orphans>>

UuidDraws == {"8f3a", "c07e"}

Faults == {"crash", "copy", "insert", "md5"}

StartPass == Start(FALSE)

StartPassLoadFails == faults < MaxFaults /\ Start(TRUE)

WalkFile == \E u \in UuidDraws : Walk("none", u)

WalkFileFails == \E flt \in Faults, u \in UuidDraws : faults < MaxFaults /\ Walk(flt, u)

\* the completion summary is logged
FinishPass ==
    /\ pc = "walk"
    /\ idx > Len(files)
    /\ pc' = "done"
    /\ last' = [NoLast EXCEPT !.op = "summary"]
    /\ UNCHANGED <<files, kind, overwrite, exifread_available, exclude_dirs, formats, dest, dirs, db,
                   processed_files, file_count, copy_count, skip_count, error_count,
                   idx, passes, faults, orphans>>

Next == StartPass \/ WalkFile \/ FinishPass

Spec == Init /\ [][Next]_vars

NextF == StartPass \/ StartPassLoadFails \/ WalkFile \/ WalkFileFails \/ FinishPass

SpecF == InitF /\ [][NextF]_vars

\* the same passes over sources that all resolve and map to one name
CopyProfiles == {ProfFull}

InitCopy == InitWith(CopyProfiles)

SpecCopy == InitCopy /\ [][NextF]_vars

(***************************************************************************)
(* Timestamp resolution on its own: one file, every combination of         *)
(* embedded fields, filename digits and modification time.                 *)
(***************************************************************************)
ExifWord(sep, n) == [sep |-> sep, n |-> n]

ExifBlank == << >>                                         \* "" after strip()
ExifDateOnly == <<ExifWord(":", <<2019, 5, 5>>)>>          \* "2019:05:05"
ExifGoodA == <<ExifWord(":", <<2020, 1, 1>>), ExifWord(":", <<10, 0, 0>>)>>
ExifGoodB == <<ExifWord(":", <<2021, 6, 15>>), ExifWord(":", <<8, 9, 10>>)>>
ExifZero == <<ExifWord(":", <<0, 0, 0>>), ExifWord(":", <<0, 0, 0>>)>>

ExifValues == {ExifBlank, ExifDateOnly, ExifGoodA, ExifGoodB, ExifZero}

ExifFieldSet == {exif_datetime_fields[i] : i \in 1..Len(exif_datetime_fields)}

ExifDicts == UNION {[S -> ExifValues] : S \in SUBSET ExifFieldSet}

Stamps == {StNone, StDate, StFull, StFullMidnight, StFeb30, StFeb30Date}

Mtimes == {NoMtime, MtEarly, MtLate, MtLateMicro}

InitTime ==
    /\ kind \in Kinds
    /\ overwrite = FALSE
    /\ exifread_available \in BOOLEAN
    /\ \E st \in Stamps, ex \in ExifDicts, mt \in Mtimes :
          files = <<File(1, [stem |-> "x", stamp |-> st, exif |-> ex, mtime |-> mt],
                         "c1", kind)>>
    /\ dest = << >>
    /\ dirs = {}
    /\ db = << >>
    /\ processed_files = {}
    /\ file_count = 0 /\ copy_count = 0 /\ skip_count = 0 /\ error_count = 0
    /\ pc = "time"
    /\ idx = 1
    /\ passes = 0
    /\ faults = 0
    /\ orphans = {}
    /\ last = NoLast
    /\ exclude_dirs = {}
    /\ formats = [path |-> path_format(kind), filename |-> filename_format(kind)]

\* self._get_photo_modification_time(file_path) / self._get_video_creation_time
ResolveTime ==
    /\ pc = "time"
    /\ pc' = "resolved"
    /\ last' = [NoLast EXCEPT !.op = "resolve", !.src = idx,
                              !.ts = Resolve(kind, files[idx], exifread_available)]
    /\ UNCHANGED <<files, kind, overwrite, exifread_available, exclude_dirs, formats, dest, dirs, db,
                   processed_files, file_count, copy_count, skip_count, error_count,
                   idx, passes, faults, orphans>>

NextTime == ResolveTime

SpecTime == InitTime /\ [][NextTime]_vars

(***************************************************************************)
(* Vocabulary of the properties                                            *)
(***************************************************************************)
\* the file the last step was about
LastFile == files[last.src]

\* the embedded fields, in priority order, that hold a non-empty value
NonEmptyFields(f) ==
    {i \in 1..Len(exif_datetime_fields) :
        /\ exif_datetime_fields[i] \in DOMAIN f.exif
        /\ f.exif[exif_datetime_fields[i]] # << >>}

\* ... and those whose value is "<date> <time>"
DateTimeFields(f) ==
    {i \in NonEmptyFields(f) : Len(f.exif[exif_datetime_fields[i]]) = 2}

Lowest(S) == CHOOSE i \in S : \A j \in S : i <= j

\* the date-time an embedded value "<date> <time>" states; none otherwise
ExifAsTime(v) ==
    IF Len(v) = 2 THEN IsoStr(v[1].n, v[2].n) ELSE NoneT

\* the date-time the digits of a filename state
FilenameAsTime(st) == IsoStr(<<st[1], st[2], st[3]>>, <<st[4], st[5], st[6]>>)

FullPattern(st) == PatternMatches("datetime", st)
DateOnlyPattern(st) == PatternMatches("date", st) /\ ~PatternMatches("datetime", st)

NoEmbeddedTime(f) == ~exifread_available \/ DateTimeFields(f) = {}

MtimeAsTime(f) == isoformat(f.mtime)

C6_FilenameDateTimeWins ==
    (pc = "resolved" /\ NoEmbeddedTime(LastFile) /\ FullPattern(LastFile.fn.stamp))
    => last.ts = FilenameAsTime(LastFile.fn.stamp)

(***************************************************************************)
(* C6 (amended): a video whose filename matches the full date+time pattern *)
(* resolves to the date-time written in the filename, whatever its         *)
(* modification time.  An image with no embedded timestamp whose filename  *)
(* matches the full pattern with a calendar date and a time other than     *)
(* 00:00:00 resolves to the filename date-time when the modification time  *)
(* is unavailable or not earlier, and to the modification time when that   *)
(* is earlier.                                                             *)
(***************************************************************************)
C6_FilenameDateTimeUnlessEarlierMtime ==
    (pc = "resolved" /\ FullPattern(LastFile.fn.stamp))
    => /\ kind = "video" => last.ts = FilenameAsTime(LastFile.fn.stamp)
       /\ (/\ kind = "image"
           /\ NoEmbeddedTime(LastFile)
           /\ fromisoformat(FilenameAsTime(LastFile.fn.stamp)) # InvalidDt
           /\ ~IsMidnight(FilenameAsTime(LastFile.fn.stamp)))
          => IF \/ LastFile.mtime = NoMtime
                \/ DtLeq(fromisoformat(FilenameAsTime(LastFile.fn.stamp)),
                         LastFile.mtime)
             THEN last.ts = FilenameAsTime(LastFile.fn.stamp)
             ELSE last.ts = MtimeAsTime(LastFile)

\* a video with an earlier modification time keeps the filename date-time,
\* and so does an image with a later one
C6_Witness ==
    /\ pc = "resolved"
    /\ LastFile.fn.stamp = StFull
    /\ last.ts = IsoStr(<<2024, 12, 30>>, <<18, 30, 45>>)
    /\ \/ kind = "video" /\ LastFile.mtime = MtEarly
       \/ kind = "image" /\ LastFile.mtime = MtLate /\ NoEmbeddedTime(LastFile)

(***************************************************************************)
(* C7: an image with no embedded timestamp whose filename matches only the *)
(* date pattern resolves to the filesystem modification time when that is  *)
(* available; the midnight value of the filename is the result only when   *)
(* it is the sole candidate.                                               *)
(***************************************************************************)
C7_MtimeBeatsSynthesizedMidnight ==
    (pc = "resolved" /\ kind = "image" /\ NoEmbeddedTime(LastFile)
        /\ DateOnlyPattern(LastFile.fn.stamp))
    => /\ LastFile.mtime # NoMtime => last.ts = MtimeAsTime(LastFile)
       /\ last.ts = IsoStr(SubSeq(LastFile.fn.stamp, 1, 3), <<0, 0, 0>>)
              => LastFile.mtime = NoMtime

\* 20241230.jpg with a later modification time resolves to that time
C7_Witness ==
    /\ pc = "resolved" /\ kind = "image" /\ NoEmbeddedTime(LastFile)
    /\ LastFile.fn.stamp = StDate
    /\ LastFile.mtime = MtLate
    /\ last.ts = IsoStr(<<2025, 1, 2>>, <<3, 4, 5>>)

(***************************************************************************)
(* Vocabulary of the properties of a pass                                  *)
(***************************************************************************)
\* this step is one iteration of the walk, on files[idx]
OnFile == pc = "walk" /\ idx \in 1..Len(files)

Cur == files[idx]

\* the file is not in the processed set loaded for this pass
Fresh == SrcPath(Cur) \notin processed_files

\* the candidate destination path the file maps to; NoPath when it maps to none
CandidateFrom(f, bp) ==
    IF bp.exc # "none" THEN NoPath ELSE Path(bp.dir, bp.file, <<>>)

CandidateOf(f) ==
    CandidateFrom(f, build_destination_path(Resolve(kind, f, exifread_available),
                                            f.fn, path_format(kind),
                                            filename_format(kind)))

Suffixed(p, n) == [p EXCEPT !.sfx = <<n>>]

\* the files of the tree d that carry the name of p, suffixed or not
Family(d, p) ==
    {q \in DOMAIN d : q.dir = p.dir /\ q.base = p.base /\ q.ext = p.ext}

RecordsOf(database, src) == {k \in DOMAIN database : database[k].src = src}

RecordsAt(database, p) == {k \in DOMAIN database : database[k].dst = p}

ContentOf(src) == files[CHOOSE i \in DOMAIN files : SrcPath(files[i]) = src].content

Rec(f, p) == [src |-> SrcPath(f), dst |-> p, media |-> kind]

Unresolvable(f) ==
    /\ NonEmptyFields(f) = {}
    /\ ~PatternMatches("date", f.fn.stamp)
    /\ f.mtime = NoMtime

(***************************************************************************)
(* C1 (as stated): with no failure injected and a fixed overwrite policy,  *)
(* the second pass over the unchanged source tree inserts no ArchiveRecord *)
(* and creates or rewrites no destination file.                            *)
(***************************************************************************)
C1_SecondPassChangesNothing ==
    [][(passes = 2 /\ pc = "walk") => (db' = db /\ dest' = dest)]_vars

(***************************************************************************)
(* C2: under any overwrite policy, a file whose candidate destination path *)
(* holds byte-identical content is skipped: nothing is copied, no          *)
(* ArchiveRecord is inserted, it is counted as skipped, and the name still *)
(* has one file with that content.                                         *)
(***************************************************************************)
C2_IdenticalContentIsSkipped ==
    [][(/\ OnFile
        /\ CandidateOf(Cur) \in DOMAIN dest
        /\ dest[CandidateOf(Cur)] = Cur.content)
       => /\ dest' = dest /\ dirs' = dirs /\ db' = db
          /\ skip_count' = skip_count + 1
          /\ copy_count' = copy_count /\ error_count' = error_count
          /\ Cardinality({q \in Family(dest', CandidateOf(Cur)) :
                             dest'[q] = Cur.content}) = 1]_vars

\* a second source with the content of an archived one was skipped
C2_Witness ==
    /\ last.op = "file" /\ last.result = "skipped"
    /\ last.target = CandidateOf(LastFile)
    /\ dest[last.target] = LastFile.content
    /\ RecordsOf(db, SrcPath(LastFile)) = {}
    /\ \E k \in DOMAIN db : db[k].dst = last.target /\ db[k].src # SrcPath(LastFile)
    /\ Cardinality(DOMAIN dest) = 1
    /\ skip_count = 1

(***************************************************************************)
(* C3: under the non-overwrite policy, of two source files with different  *)
(* content that map to the same destination name, with no suffixed variant *)
(* present, the first is copied to name.ext and the second to name_001.ext;*)
(* afterwards both files exist, each with the content of its own source,   *)
(* and each has one ArchiveRecord.                                         *)
(***************************************************************************)
C3_SecondDifferentContentGetsSuffix001 ==
    [][(/\ OnFile /\ ~overwrite /\ Fresh
        /\ CandidateOf(Cur) # NoPath
        /\ Family(dest, CandidateOf(Cur)) \subseteq {CandidateOf(Cur)})
       => IF CandidateOf(Cur) \notin DOMAIN dest
          THEN /\ dest' = copy2(dest, Cur, CandidateOf(Cur))
               /\ db' = Append(db, Rec(Cur, CandidateOf(Cur)))
          ELSE IF dest[CandidateOf(Cur)] # Cur.content
          THEN /\ dest' = copy2(dest, Cur, Suffixed(CandidateOf(Cur), 1))
               /\ Family(dest', CandidateOf(Cur))
                      = {CandidateOf(Cur), Suffixed(CandidateOf(Cur), 1)}
               /\ db' = Append(db, Rec(Cur, Suffixed(CandidateOf(Cur), 1)))
               /\ Cardinality(RecordsOf(db', SrcPath(Cur))) = 1
               /\ Cardinality(RecordsAt(db', CandidateOf(Cur))) = 1
               /\ \A k \in DOMAIN db' : ContentOf(db'[k].src) = dest'[db'[k].dst]
          ELSE TRUE]_vars

\* the second of two different files of one name went to name_001
C3_Witness ==
    /\ ~overwrite
    /\ last.op = "file" /\ last.result = "copied"
    /\ last.target = Suffixed(CandidateOf(LastFile), 1)
    /\ Family(dest, last.target) = {CandidateOf(LastFile), last.target}
    /\ dest[last.target] = LastFile.content
    /\ dest[CandidateOf(LastFile)] # LastFile.content
    /\ Len(db) = 2
    /\ db[1].dst = CandidateOf(LastFile) /\ db[2].dst = last.target

(***************************************************************************)
(* C4: under overwrite=true, a file whose destination path is occupied by  *)
(* different content is copied onto that exact path, no suffixed file is   *)
(* created, and one ArchiveRecord with that path is inserted.              *)
(***************************************************************************)
C4_OverwriteReplacesInPlace ==
    [][(/\ OnFile /\ overwrite /\ Fresh
        /\ CandidateOf(Cur) \in DOMAIN dest
        /\ dest[CandidateOf(Cur)] # Cur.content)
       => /\ dest' = [dest EXCEPT ![CandidateOf(Cur)] = Cur.content]
          /\ DOMAIN dest' = DOMAIN dest
          /\ db' = Append(db, Rec(Cur, CandidateOf(Cur)))]_vars

\* a different file of the same name was replaced in place and recorded
C4_Witness ==
    /\ overwrite
    /\ last.op = "file" /\ last.result = "copied"
    /\ last.target = CandidateOf(LastFile)
    /\ DOMAIN dest = {last.target}
    /\ dest[last.target] = LastFile.content
    /\ \E k \in DOMAIN db :
          /\ db[k].dst = last.target
          /\ ContentOf(db[k].src) # LastFile.content
    /\ db[Len(db)] = Rec(LastFile, last.target)

(***************************************************************************)
(* C8: a file for which no timestamp source yields a value is counted as   *)
(* exactly one error, and no destination file, destination directory or    *)
(* ArchiveRecord is produced for it.                                       *)
(***************************************************************************)
C8_UnresolvableIsOneError ==
    [][(OnFile /\ Unresolvable(Cur))
       => /\ error_count' = error_count + 1
          /\ file_count' = file_count + 1
          /\ copy_count' = copy_count /\ skip_count' = skip_count
          /\ dest' = dest /\ dirs' = dirs /\ db' = db
          /\ processed_files' = processed_files
          /\ pc' = "walk" /\ idx' = idx + 1]_vars

\* the first file of a pass had nothing to resolve from
C8_Witness ==
    /\ last.op = "file" /\ last.result = "error"
    /\ Unresolvable(LastFile)
    /\ last.ts = NoneT
    /\ error_count = 1 /\ file_count = 1
    /\ dest = << >> /\ dirs = {} /\ db = << >>

(***************************************************************************)
(* C9 (as stated): in process_photos and in process_videos, a failure of   *)
(* any kind while processing one file becomes an error count for that file *)
(* and the walk continues with the next file.                              *)
(***************************************************************************)
C9_WalkContinuesAfterAnyFailure ==
    [][OnFile => (pc' = "walk" /\ idx' = idx + 1)]_vars

(***************************************************************************)
(* C10 (as stated): under the non-overwrite policy, when an earlier step   *)
(* was interrupted after copying a file and before inserting its record,   *)
(* a later pass finds the orphan by content comparison and creates no      *)
(* second destination file for that source.                                *)
(***************************************************************************)
C10_OrphanIsNotDuplicated ==
    [][(/\ OnFile /\ ~overwrite
        /\ \E o \in orphans :
              o[1] = idx /\ o[2] \in DOMAIN dest /\ dest[o[2]] = Cur.content)
       => DOMAIN dest' = DOMAIN dest]_vars

(***************************************************************************)
(* C11 (as stated): under the non-overwrite policy, for images and videos  *)
(* alike, a suffixed candidate that already holds the content of the       *)
(* source is reused; hence no two files among name.ext, name_001.ext,      *)
(* name_002.ext, ... hold identical content.                               *)
(***************************************************************************)
C11_NoTwoFilesOfANameShareContent ==
    ~overwrite
    => \A p \in DOMAIN dest : \A q \in Family(dest, p) :
           p # q => dest[p] # dest[q]

(***************************************************************************)
(* The rename search against a destination directory that already holds    *)
(* name.ext and name_001.ext .. name_NNN.ext from earlier runs, with       *)
(* content that none of the sources has.                                   *)
(***************************************************************************)
OldContent == "c0"

Occupied == {CounterLimit - 2, CounterLimit - 1, CounterLimit}

Prefilled(p, n) == [q \in {p} \cup {Suffixed(p, j) : j \in 1..n} |-> OldContent]

InitRename ==
    /\ kind \in Kinds
    /\ overwrite = FALSE
    /\ exifread_available = TRUE
    /\ \E pick \in [1..NumFiles -> Contents] :
          files = [i \in 1..NumFiles |-> File(i, ProfFull, pick[i], kind)]
    /\ \E n \in Occupied, p \in {CandidateOf(files[1])} :
          /\ dest = Prefilled(p, n)
          /\ dirs = {p.dir}
    /\ db = << >>
    /\ processed_files = {}
    /\ file_count = 0 /\ copy_count = 0 /\ skip_count = 0 /\ error_count = 0
    /\ pc = "idle"
    /\ idx = 0
    /\ passes = 0
    /\ faults = 0
    /\ orphans = {}
    /\ last = NoLast
    /\ exclude_dirs = {}
    /\ formats = [path |-> path_format(kind), filename |-> filename_format(kind)]

SpecRename == InitRename /\ [][Next]_vars

(***************************************************************************)
(* C12 (as stated): under the non-overwrite policy the rename search       *)
(* terminates, for images and for videos, and the suffix of the chosen     *)
(* name is a counter in 001..999 or, once those are taken by different     *)
(* content, a random token; the counter never yields a suffix above 999.   *)
(***************************************************************************)
C12_SuffixIsCounterUpTo999OrToken ==
    (last.op = "file" /\ last.target # NoPath /\ last.target.sfx # << >>)
    => \/ Len(last.target.sfx) = 1 /\ last.target.sfx[1] \in 1..CounterLimit
       \/ Len(last.target.sfx) = 2 /\ last.target.sfx[2] \in UuidDraws

(***************************************************************************)
(* C13: a file whose source path is in the processed set of the pass is    *)
(* counted as skipped and nothing else happens for it: no timestamp is     *)
(* resolved, no destination is looked at, nothing is copied or inserted;   *)
(* the destination tree and the store are unchanged, whatever the          *)
(* destination file holds by now.                                          *)
(***************************************************************************)
C13_KnownFileIsSkippedUntouched ==
    [][(OnFile /\ ~Fresh)
       => /\ skip_count' = skip_count + 1
          /\ file_count' = file_count + 1
          /\ copy_count' = copy_count /\ error_count' = error_count
          /\ dest' = dest /\ dirs' = dirs /\ db' = db
          /\ processed_files' = processed_files
          /\ last'.op = "known" /\ last'.ts = NoneT /\ last'.target = NoPath
          /\ pc' = "walk" /\ idx' = idx + 1]_vars

\* a recorded file was passed over although its destination file has been
\* replaced by other content since
C13_Witness ==
    /\ last.op = "known" /\ last.result = "skipped"
    /\ passes = 2 /\ skip_count >= 1
    /\ \E k \in DOMAIN db :
          /\ db[k].src = SrcPath(LastFile)
          /\ dest[db[k].dst] # LastFile.content

(***************************************************************************)
(* C14 (as stated): after any sequence of passes over the same source      *)
(* root, under any overwrite policy, including passes in which loading the *)
(* processed set failed or a previous pass was interrupted, no source path *)
(* has more than one ArchiveRecord.                                        *)
(***************************************************************************)
C14_AtMostOneRecordPerSource ==
    \A i \in DOMAIN files : Cardinality(RecordsOf(db, SrcPath(files[i]))) <= 1

(***************************************************************************)
(* C15: when the record insert fails after a successful copy, the copied   *)
(* destination file stays in place, no ArchiveRecord is written, the file  *)
(* is counted as an error and not as copied, and its source path is not    *)
(* added to the processed set.                                             *)
(***************************************************************************)
C15_InsertFailureLeavesCopyAndCountsError ==
    [][(\E u \in UuidDraws : faults < MaxFaults /\ Walk("insert", u))
       => /\ last'.target \in DOMAIN dest'
          /\ dest'[last'.target] = Cur.content
          /\ \A p \in DOMAIN dest \ {last'.target} :
                p \in DOMAIN dest' /\ dest'[p] = dest[p]
          /\ db' = db
          /\ error_count' = error_count + 1
          /\ copy_count' = copy_count /\ skip_count' = skip_count
          /\ file_count' = file_count + 1
          /\ SrcPath(Cur) \notin processed_files'
          /\ pc' = "walk" /\ idx' = idx + 1]_vars

\* the first file of a pass was copied, its insert failed
C15_Witness ==
    /\ last.op = "file" /\ last.result = "error"
    /\ faults = 1
    /\ LastFile.mtime # NoMtime
    /\ last.target \in DOMAIN dest /\ dest[last.target] = LastFile.content
    /\ db = << >>
    /\ error_count = 1 /\ copy_count = 0
    /\ SrcPath(LastFile) \notin processed_files

(***************************************************************************)
(* C16: when the copy itself fails with an I/O error, the insert is not    *)
(* attempted: no ArchiveRecord is written for the file, it is counted as   *)
(* exactly one error, its source path is not added to the processed set,   *)
(* and processing continues with the next file.                            *)
(***************************************************************************)
C16_CopyFailureWritesNoRecord ==
    [][(\E u \in UuidDraws : faults < MaxFaults /\ Walk("copy", u))
       => /\ db' = db
          /\ error_count' = error_count + 1
          /\ copy_count' = copy_count /\ skip_count' = skip_count
          /\ file_count' = file_count + 1
          /\ SrcPath(Cur) \notin processed_files'
          /\ pc' = "walk" /\ idx' = idx + 1]_vars

\* the copy of the first file of a pass failed: nothing at its destination
C16_Witness ==
    /\ last.op = "file" /\ last.result = "error"
    /\ faults = 1
    /\ last.target # NoPath /\ last.target \notin DOMAIN dest
    /\ db = << >>
    /\ error_count = 1 /\ copy_count = 0 /\ file_count = 1
    /\ SrcPath(LastFile) \notin processed_files
    /\ pc = "walk" /\ idx = 2

(***************************************************************************)
(* C17 (as stated): when reading an existing destination candidate fails   *)
(* during the content comparison of placement, the file is counted as an   *)
(* error and nothing is copied, renamed or overwritten for it.             *)
(***************************************************************************)
C17_FailedComparisonIsAnError ==
    [][(\E u \in UuidDraws : faults < MaxFaults /\ Walk("md5", u))
       => /\ dest' = dest /\ db' = db
          /\ error_count' = error_count + 1
          /\ copy_count' = copy_count]_vars

(***************************************************************************)
(* Passes over a source tree with subdirectories and --exclude arguments.  *)
(* The directories are the root, 1, 1/2 and 3.                             *)
(***************************************************************************)
SourceDirs == {<< >>, <<1>>, <<1, 2>>, <<3>>}

\* --exclude values: none, "1", "1/2", "3" with ".", "./1" and "1/../3"
ExcludeArgs ==
    {{}, {<<1>>}, {<<1, 2>>}, {<<3>>, <<Dot>>}, {<<Dot, 1>>}, {<<1, DotDot, 3>>}}

ProfileOf(i) ==
    IF i % 3 = 1 THEN ProfFull ELSE IF i % 3 = 2 THEN ProfFeb30 ELSE ProfNothing

ContentOfIndex(i) == IF i % 2 = 1 THEN "c1" ELSE "c2"

InitExclude ==
    /\ kind \in Kinds
    /\ overwrite = FALSE
    /\ exifread_available = TRUE
    /\ \E pick \in [1..NumFiles -> SourceDirs] :
          /\ files = [i \in 1..NumFiles |->
                        [File(i, ProfileOf(i), ContentOfIndex(i), kind)
                            EXCEPT !.dir = pick[i]]]
          /\ \A i, j \in 1..NumFiles :
                (i # j /\ pick[i] = pick[j]) => ProfileOf(i) # ProfileOf(j)
    /\ exclude_dirs \in ExcludeArgs
    /\ dest = << >>
    /\ dirs = {}
    /\ db = << >>
    /\ processed_files = {}
    /\ file_count = 0 /\ copy_count = 0 /\ skip_count = 0 /\ error_count = 0
    /\ pc = "idle"
    /\ idx = 0
    /\ passes = 0
    /\ faults = 0
    /\ orphans = {}
    /\ last = NoLast
    /\ formats = [path |-> path_format(kind), filename |-> filename_format(kind)]

NextExclude == StartPass \/ WalkFile \/ WalkExcluded \/ FinishPass

SpecExclude == InitExclude /\ [][NextExclude]_vars

\* the directory p is one the --exclude arguments name, or lies below one
InExcludedSubtree(p) ==
    \E e \in exclude_dirs :
        /\ Len(normpath(e)) <= Len(p)
        /\ SubSeq(p, 1, Len(normpath(e))) = normpath(e)

(***************************************************************************)
(* C18: no file in an excluded directory or in a directory below it is     *)
(* resolved, copied, recorded or counted in a pass; and the files of the   *)
(* source root itself are never passed over as excluded.                   *)
(***************************************************************************)
C18_ExcludedSubtreeIsNeverTouched ==
    [][/\ (OnFile /\ InExcludedSubtree(Cur.dir))
          => /\ last'.op = "excluded" /\ last'.ts = NoneT
             /\ dest' = dest /\ dirs' = dirs /\ db' = db
             /\ processed_files' = processed_files
             /\ file_count' = file_count /\ copy_count' = copy_count
             /\ skip_count' = skip_count /\ error_count' = error_count
       /\ (OnFile /\ Cur.dir = << >>) => last'.op # "excluded"]_vars

\* a file of 1/2 was passed over under --exclude 1, after a file of another
\* directory was processed
C18_Witness ==
    /\ last.op = "excluded"
    /\ LastFile.dir = <<1, 2>>
    /\ exclude_dirs = {<<Dot, 1>>}
    /\ file_count >= 1
    /\ \A k \in DOMAIN db : ~InExcludedSubtree(db[k].src[1])

(***************************************************************************)
(* C19 (as stated): every timestamp that timestamp resolution returns,     *)
(* whichever source it came from, has the precision year, month, day,      *)
(* hour, minute, second and nothing finer.                                 *)
(***************************************************************************)
C19_ResolvedTimeHasSecondPrecision ==
    (pc = "resolved" /\ last.ts # NoneT) => last.ts.frac = << >>

(***************************************************************************)
(* build_destination_path on its own: the timestamp resolved for one file  *)
(* and templates over the eight tokens.  The last token of a filename      *)
(* template is the one written after the dot.                              *)
(***************************************************************************)
PathTemplates ==
    {<<"year", "month", "day">>, <<"year", "month">>, <<"year", "month", "day", "hour">>,
     <<"extension", "originalfile">>, <<"minute", "second">>}

FilenameTemplates ==
    {<<"IMG", "year", "month", "day", "originalfile", "extension">>,
     <<"originalfile", "extension">>,
     <<"year", "month", "day", "hour", "minute", "second", "extension">>}

InitBuild ==
    /\ kind \in Kinds
    /\ overwrite = FALSE
    /\ exifread_available = TRUE
    /\ \E st \in Stamps, mt \in Mtimes :
          files = <<File(1, [stem |-> "x", stamp |-> st, exif |-> NoExif, mtime |-> mt],
                         "c1", kind)>>
    /\ formats \in [path : PathTemplates, filename : FilenameTemplates]
    /\ dest = << >>
    /\ dirs = {}
    /\ db = << >>
    /\ processed_files = {}
    /\ file_count = 0 /\ copy_count = 0 /\ skip_count = 0 /\ error_count = 0
    /\ pc = "build"
    /\ idx = 1
    /\ passes = 0
    /\ faults = 0
    /\ orphans = {}
    /\ last = NoLast
    /\ exclude_dirs = {}

BuildResult(ts, bp) ==
    [NoLast EXCEPT !.op = "build", !.src = idx, !.ts = ts, !.exc = bp.exc,
                   !.result = IF bp.exc = "none" THEN "returned" ELSE "raise",
                   !.target = CandidateFrom(files[idx], bp)]

\* build_destination_path(modification_time, filename, path_format, filename_format)
BuildPath ==
    /\ pc = "build"
    /\ Resolve(kind, files[idx], exifread_available) # NoneT
    /\ pc' = "built"
    /\ last' = BuildResult(Resolve(kind, files[idx], exifread_available),
                   build_destination_path(Resolve(kind, files[idx], exifread_available),
                                          files[idx].fn, formats.path, formats.filename))
    /\ UNCHANGED <<files, kind, overwrite, exifread_available, exclude_dirs, formats,
                   dest, dirs, db, processed_files, file_count, copy_count,
                   skip_count, error_count, idx, passes, faults, orphans>>

NextBuild == BuildPath

SpecBuild == InitBuild /\ [][NextBuild]_vars

(***************************************************************************)
(* C20 (as stated): build_destination_path is total: for every resolved    *)
(* timestamp and every directory and filename template over the tokens     *)
(* year, month, day, hour, minute, second, originalfile, extension it      *)
(* returns a pair without raising.                                         *)
(***************************************************************************)
C20_BuildDestinationPathIsTotal ==
    last.op = "build" => (last.exc = "none" /\ last.target # NoPath)

\* the embedded value v is not a date-time: it is not "<date> <time>", or its
\* numbers are no calendar date and time of day
NotADateTime(v) == fromisoformat(ExifAsTime(v)) = InvalidDt

\* the value of the highest-priority non-empty embedded field of f
TopField(f) == f.exif[exif_datetime_fields[Lowest(NonEmptyFields(f))]]

\* step 2: the reconciliation of the filename and modification-time candidates
Step2(f) ==
    _get_earliest_time(NoneT, get_datetime_from_filename(f.fn),
                       get_file_modification_time(f))

(***************************************************************************)
(* C21 (as stated): when the highest-priority non-empty embedded timestamp *)
(* field of an image cannot be converted into a date-time, resolution uses *)
(* no other embedded field and returns what the reconciliation of the      *)
(* filename and the filesystem modification time returns.                  *)
(***************************************************************************)
C21_MalformedTopFieldFallsToStep2 ==
    (pc = "resolved" /\ kind = "image" /\ exifread_available
        /\ NonEmptyFields(LastFile) # {}
        /\ NotADateTime(TopField(LastFile)))
    => last.ts = Step2(LastFile)

\* the earlier of the date-time written in the filename and the modification time
EarlierOfFilenameAndMtime(f) ==
    IF DtLeq(fromisoformat(FilenameAsTime(f.fn.stamp)), f.mtime)
    THEN FilenameAsTime(f.fn.stamp) ELSE MtimeAsTime(f)

(***************************************************************************)
(* C22 (as stated): for an image with no embedded timestamp whose filename *)
(* matches the full date+time pattern with a calendar date and whose       *)
(* modification time is available, _get_earliest_time returns the earlier  *)
(* of the filename date-time and the modification time, also when the time *)
(* written in the filename is 00:00:00.                                    *)
(***************************************************************************)
C22_EarlierOfFullFilenameAndMtime ==
    (pc = "resolved" /\ kind = "image" /\ NoEmbeddedTime(LastFile)
        /\ FullPattern(LastFile.fn.stamp)
        /\ fromisoformat(FilenameAsTime(LastFile.fn.stamp)) # InvalidDt
        /\ LastFile.mtime # NoMtime)
    => _get_earliest_time(NoneT, get_date_from_filename(LastFile.fn),
                          get_file_modification_time(LastFile))
          = EarlierOfFilenameAndMtime(LastFile)

(***************************************************************************)
(* C23 (as stated): for a video, _get_video_creation_time returns what the *)
(* reconciliation rule _get_earliest_time returns with no embedded value,  *)
(* for every filename candidate (none, date-only, full date+time) and      *)
(* every modification time (unavailable, earlier, later).                  *)
(***************************************************************************)
C23_VideoResolvesAsReconciliation ==
    (pc = "resolved" /\ kind = "video")
    => last.ts = _get_earliest_time(NoneT, get_date_from_filename(LastFile.fn),
                                    get_file_modification_time(LastFile))

(***************************************************************************)
(* C24: within a pass, the source path of a file is added to the processed *)
(* set in the step that processes it when, and only when, the result is    *)
(* "copied"; a step whose result is "skipped" or an error, or that passes  *)
(* over a known or excluded file, leaves the set as it is; no step of the  *)
(* walk removes an element.                                                *)
(***************************************************************************)
C24_ProcessedSetGrowsOnlyByCopies ==
    [][pc = "walk"
       => /\ processed_files \subseteq processed_files'
          /\ IF last'.op = "file" /\ last'.result = "copied"
             THEN processed_files' = processed_files \cup {SrcPath(Cur)}
             ELSE processed_files' = processed_files]_vars

\* the second file of a pass was copied and is in the set; the first, which
\* ended in an error, is not
C24_Witness ==
    /\ pc = "walk" /\ idx = 3
    /\ last.op = "file" /\ last.result = "copied"
    /\ error_count = 1 /\ copy_count = 1 /\ file_count = 2
    /\ processed_files = {SrcPath(LastFile)}
    /\ SrcPath(files[1]) \notin processed_files

(***************************************************************************)
(* Passes over sources one of which carries an embedded timestamp of       *)
(* zeros, as written by a camera whose clock was never set.                *)
(***************************************************************************)
ProfZeroExif ==
    [stem |-> "z", stamp |-> StNone,
     exif |-> [fld \in {"EXIF DateTimeOriginal"} |-> ExifZero], mtime |-> MtLate]

RaiseProfiles == {ProfFull, ProfNothing, ProfZeroExif}

InitRaise == InitWith(RaiseProfiles)

SpecRaise == InitRaise /\ [][Next]_vars

(***************************************************************************)
(* C25 (as stated): every supported file the walk visits adds exactly 1 to *)
(* file_count and exactly 1 to one of copy_count, skip_count, error_count, *)
(* also when its processing raised an exception caught in the walk loop;   *)
(* at the end of every pass file_count = copy_count + skip_count +         *)
(* error_count.                                                            *)
(***************************************************************************)
C25_CountsAddUp ==
    [][/\ (OnFile /\ pc' = "walk")
          => /\ file_count' = file_count + 1
             /\ copy_count' + skip_count' + error_count'
                   = copy_count + skip_count + error_count + 1
             /\ copy_count' >= copy_count /\ skip_count' >= skip_count
             /\ error_count' >= error_count
       /\ pc' = "done"
          => file_count' = copy_count' + skip_count' + error_count']_vars

(***************************************************************************)
(* C26 (as stated): every supported file whose directory is neither an     *)
(* excluded directory nor below one is visited by the pass: it is          *)
(* processed, or counted as already processed, and never passed over as    *)
(* excluded; with 1/2 excluded this holds for the files of directory 1.    *)
(***************************************************************************)
C26_OnlyExcludedSubtreesArePassedOver ==
    [][(OnFile /\ ~InExcludedSubtree(Cur.dir))
       => last'.op \in {"file", "known"}]_vars

(***************************************************************************)
(* C27: under the non-overwrite policy, across any sequence of passes,     *)
(* failed or interrupted steps included, a copy only goes to a path at     *)
(* which no file exists when the step decides: every file of the           *)
(* destination tree is still there after the step with the content it had, *)
(* and a step that copies adds one file at a path that was free.           *)
(***************************************************************************)
C27_NonOverwriteNeverTouchesExistingFile ==
    [][~overwrite
       => /\ \A p \in DOMAIN dest : p \in DOMAIN dest' /\ dest'[p] = dest[p]
          /\ dest' # dest
                => /\ last'.op = "file"
                   /\ last'.target \notin DOMAIN dest
                   /\ DOMAIN dest' = DOMAIN dest \cup {last'.target}
          /\ (last'.op = "file" /\ last'.result = "copied")
                => last'.target \notin DOMAIN dest]_vars

\* a second pass whose processed set failed to load left the two files an
\* earlier pass made as they were, or added a third beside them
C27_Witness ==
    /\ ~overwrite
    /\ passes = 2 /\ pc = "done"
    /\ faults = 1 /\ processed_files # get_processed_files(db)
    /\ \E p, q \in DOMAIN dest : p # q /\ dest[p] = "c1" /\ dest[q] = "c2"
    /\ skip_count + copy_count = Len(files)

(***************************************************************************)
(* C28 (as stated): after any sequence of passes, under any overwrite      *)
(* policy, for every ArchiveRecord the file at its destination path exists *)
(* and holds the content of the file at its source path.                   *)
(***************************************************************************)
C28_RecordedDestinationHoldsItsSource ==
    pc = "done"
    => \A k \in DOMAIN db :
          /\ db[k].dst \in DOMAIN dest
          /\ dest[db[k].dst] = ContentOf(db[k].src)

\* In a pass without failures a file that maps to a destination path is either
\* copied and recorded or skipped by the placement decision: a file of a
\* later pass that maps to a path and has no ArchiveRecord was skipped by
\* the passes before.
SkippedBefore(f) ==
    /\ passes >= 2
    /\ CandidateOf(f) # NoPath
    /\ RecordsOf(db, SrcPath(f)) = {}

(***************************************************************************)
(* C29 (as stated): a step whose placement decision is Skip inserts no     *)
(* ArchiveRecord and leaves the processed set as it is; and a file so      *)
(* skipped is, on a later pass over the unchanged tree, resolved and       *)
(* compared again, counted as skipped again, and still gets no             *)
(* ArchiveRecord and no place in the processed set.                        *)
(***************************************************************************)
C29_SkippedFileIsSkippedAgain ==
    [][/\ (OnFile /\ last'.op = "file" /\ last'.result = "skipped")
          => /\ db' = db
             /\ processed_files' = processed_files
             /\ SrcPath(Cur) \notin processed_files'
       /\ (OnFile /\ SkippedBefore(Cur))
          => /\ Fresh
             /\ last'.op = "file" /\ last'.ts # NoneT
             /\ last'.result = "skipped"
             /\ skip_count' = skip_count + 1
             /\ db' = db
             /\ SrcPath(Cur) \notin processed_files']_vars

\* the source of this step has an ArchiveRecord from an earlier pass, and the
\* processed set of this pass, whose loading failed, does not hold it
ArchivedButNotLoaded == OnFile /\ Fresh /\ RecordsOf(db, SrcPath(Cur)) # {}

(***************************************************************************)
(* C30 (as stated): a pass whose loading of the processed set fails is not *)
(* aborted and runs with an empty processed set; under the non-overwrite   *)
(* policy every source an earlier pass archived is then skipped through    *)
(* the content comparison at the destination: no destination file is       *)
(* created and no ArchiveRecord is inserted for it.                        *)
(***************************************************************************)
C30_FailedLoadReachesSkipByContent ==
    [][/\ (faults < MaxFaults /\ Start(TRUE))
          => (pc' = "walk" /\ processed_files' = {})
       /\ (ArchivedButNotLoaded /\ ~overwrite)
          => /\ last'.op = "file" /\ last'.result = "skipped"
             /\ skip_count' = skip_count + 1
             /\ dest' = dest /\ db' = db]_vars

====
